---- MODULE Spec2Model ----
(***************************************************************************)
(* A model of the SASS operand classifier and instruction/statement        *)
(* parsers of sass_isa_ast (ast.py, and its legacy twin sass_ast.py).      *)
(*                                                                         *)
(* A Python str is modelled as a sequence of one-character strings:        *)
(* "R1" is <<"R","1">>.  A Python object is a record whose "kind" is the   *)
(* class name; an attribute the constructor never sets is a field the      *)
(* record does not have.  A raised exception is a record of kind "Error".  *)
(* Every operator that exists in both source files takes the file as its   *)
(* first parameter, mod \in {"ast", "sass_ast"}.                           *)
(***************************************************************************)
EXTENDS Integers, Sequences, FiniteSets, TLC

\* pc:     "ready" before a call, "done" once it has returned or raised
\* file:   the source file whose function the call goes to
\* call:   the function or method called
\* line:   its string argument (a token or an instruction text)
\* parts:  the guard, mnemonic and operand tokens a text was written from
\* lbl:    the label argument of Statement
\* bits:   the width argument of HexImmediate.to_smt
\* token2: the token of the second operand of a comparison
\* seed:   the interpreter's string hash seed
\* result: the value returned, or the exception raised
VARIABLES pc, file, call, line, parts, lbl, bits, token2, seed, result

vars == <<pc, file, call, line, parts, lbl, bits, token2, seed, result>>

(***************************************************************************)
(* Python values                                                           *)
(***************************************************************************)
\* None where an object may stand
None == [kind |-> "None"]

\* None where a str may stand: a sequence that is no sequence of characters
NoneStr == <<"None">>

Raise(exc, msg) == [kind |-> "Error", exc |-> exc, msg |-> msg]

\* a str returned where an exception may be raised instead
Str(s) == [kind |-> "str", value |-> s]

IsError(r) == r.kind = "Error"

(***************************************************************************)
(* Character classes of Python's re module (ASCII part)                    *)
(***************************************************************************)
DigitSeq == <<"0", "1", "2", "3", "4", "5", "6", "7", "8", "9">>

Digit == {DigitSeq[i] : i \in DOMAIN DigitSeq}

LowerSeq == <<"a", "b", "c", "d", "e", "f", "g", "h", "i", "j", "k", "l", "m",
              "n", "o", "p", "q", "r", "s", "t", "u", "v", "w", "x", "y", "z">>

UpperSeq == <<"A", "B", "C", "D", "E", "F", "G", "H", "I", "J", "K", "L", "M",
              "N", "O", "P", "Q", "R", "S", "T", "U", "V", "W", "X", "Y", "Z">>

Lower == {LowerSeq[i] : i \in DOMAIN LowerSeq}

Upper == {UpperSeq[i] : i \in DOMAIN UpperSeq}

\* \w
WordChar == Digit \cup Lower \cup Upper \cup {"_"}

\* \s
Space == {" ", "\t", "\n"}

\* [0-9a-f]
LowerHexDigit == Digit \cup {"a", "b", "c", "d", "e", "f"}

PunctSeq == <<" ", "\t", "\n", "!", "#", "+", ",", "-", ".", "@", "[", "]",
              "_", "{", "|", "}", "~">>

\* ord(): the position of a character in a fixed enumeration of the
\* characters the model uses.
CharSeq == PunctSeq \o DigitSeq \o UpperSeq \o LowerSeq

ord(c) == CHOOSE i \in DOMAIN CharSeq : CharSeq[i] = c

(***************************************************************************)
(* str methods                                                             *)
(***************************************************************************)
\* s[i:] with a 1-based i
From(s, i) == SubSeq(s, i, Len(s))

\* s.startswith(p)
startswith(s, p) == Len(s) >= Len(p) /\ SubSeq(s, 1, Len(p)) = p

\* s.endswith(p)
endswith(s, p) == Len(s) >= Len(p) /\ From(s, Len(s) - Len(p) + 1) = p

\* the substring p starts at position i of s
At(s, i, p) == i >= 1 /\ i + Len(p) - 1 <= Len(s) /\ SubSeq(s, i, i + Len(p) - 1) = p

\* p in s
contains(s, p) == \E i \in 1..(Len(s) + 1) : At(s, i, p)

\* s.find(p), 1-based; 0 when p does not occur
find(s, p) ==
    IF contains(s, p)
    THEN CHOOSE i \in 1..(Len(s) + 1) : At(s, i, p) /\ \A j \in 1..(i - 1) : ~At(s, j, p)
    ELSE 0

\* a replace that leaves the string as it is
replace_nothing(s, old, new) == s

\* s.replace(old, new), old not empty
RECURSIVE replace(_, _, _)
replace(s, old, new) ==
    IF Len(s) < Len(old) THEN s
    ELSE IF startswith(s, old) THEN new \o replace(From(s, Len(old) + 1), old, new)
    ELSE <<s[1]>> \o replace(Tail(s), old, new)

\* s.count(c) for a single character c
count(s, c) == Cardinality({i \in 1..Len(s) : s[i] = c})

\* s.lstrip(chars)
lstrip(s, chars) ==
    IF \A i \in 1..Len(s) : s[i] \in chars THEN <<>>
    ELSE From(s, CHOOSE i \in 1..Len(s) :
                    s[i] \notin chars /\ \A j \in 1..(i - 1) : s[j] \in chars)

\* s.rstrip(chars)
rstrip(s, chars) ==
    IF \A i \in 1..Len(s) : s[i] \in chars THEN <<>>
    ELSE SubSeq(s, 1, CHOOSE i \in 1..Len(s) :
                         s[i] \notin chars /\ \A j \in (i + 1)..Len(s) : s[j] \in chars)

\* s.strip(chars)
strip(s, chars) == rstrip(lstrip(s, chars), chars)

\* s.split(c) for a single character c: the pieces between the separators
RECURSIVE split(_, _)
split(s, c) ==
    LET cut(k) == IF k = 0 THEN <<s>>
                  ELSE <<SubSeq(s, 1, k - 1)>> \o split(From(s, k + 1), c)
    IN cut(find(s, <<c>>))

\* s.split(): the maximal runs of non-whitespace characters
RECURSIVE split_ws(_)
split_ws(s) ==
    LET \* the length of the first run of t
        run(t) == IF \E i \in 1..Len(t) : t[i] \in Space
                  THEN (CHOOSE i \in 1..Len(t) :
                           t[i] \in Space /\ \A j \in 1..(i - 1) : t[j] \notin Space) - 1
                  ELSE Len(t)
        first(t, n) == <<SubSeq(t, 1, n)>> \o split_ws(From(t, n + 1))
        runs(t) == IF t = <<>> THEN <<>> ELSE first(t, run(t))
    IN runs(lstrip(s, Space))

AllIn(s, chars) == \A i \in 1..Len(s) : s[i] \in chars

\* \d+ matches the whole of s
IsDigits(s) == Len(s) >= 1 /\ AllIn(s, Digit)

\* the value of a decimal digit string
RECURSIVE DecValue(_)
DecValue(s) ==
    IF s = <<>> THEN 0
    ELSE 10 * DecValue(SubSeq(s, 1, Len(s) - 1)) + (ord(s[Len(s)]) - ord("0"))

\* int(s): [ok, val].  Python accepts surrounding whitespace, one sign, and
\* single underscores between digits.
int(s) ==
    LET parse(t) ==
            LET signed == Len(t) >= 1 /\ t[1] \in {"+", "-"}
                body == IF signed THEN Tail(t) ELSE t
                wellformed ==
                    /\ Len(body) >= 1
                    /\ AllIn(body, Digit \cup {"_"})
                    /\ body[1] # "_"
                    /\ body[Len(body)] # "_"
                    /\ \A i \in 1..(Len(body) - 1) : body[i] # "_" \/ body[i + 1] # "_"
                magnitude == DecValue(SelectSeq(body, LAMBDA c : c # "_"))
            IN IF wellformed
               THEN [ok |-> TRUE,
                     val |-> IF signed /\ t[1] = "-" THEN 0 - magnitude ELSE magnitude]
               ELSE [ok |-> FALSE, val |-> 0]
    IN parse(strip(s, Space))

(***************************************************************************)
(* The regular expressions of argument_to_object and of Register.  Each    *)
(* operator says whether pattern.search(arg) finds a match; a pattern      *)
(* whose groups the code reads returns them.                               *)
(***************************************************************************)
\* "$" matches at the end of the string and before a final newline: the
\* bodies that a pattern ending in "$" may have matched in full.
Chomp(s) ==
    {s} \cup (IF endswith(s, <<"\n">>) THEN {SubSeq(s, 1, Len(s) - 1)} ELSE {})

\* r"^SB\d+"
named_depbar_pattern(arg) ==
    startswith(arg, <<"S", "B">>) /\ Len(arg) >= 3 /\ arg[3] \in Digit

\* r"^SR_\w+"
sreg_pattern(arg) ==
    startswith(arg, <<"S", "R", "_">>) /\ Len(arg) >= 4 /\ arg[4] \in WordChar

\* 0x[0-9a-f]+
HexLiteral(s) ==
    Len(s) >= 3 /\ startswith(s, <<"0", "x">>) /\ AllIn(From(s, 3), LowerHexDigit)

\* R\d+
RDigits(s) == Len(s) >= 2 /\ s[1] = "R" /\ IsDigits(Tail(s))

\* (0x[0-9a-f]+|RZ|R\d+(\.64)?)
AddressBase(s) ==
    \/ HexLiteral(s)
    \/ s = <<"R", "Z">>
    \/ RDigits(s)
    \/ endswith(s, <<".", "6", "4">>) /\ RDigits(SubSeq(s, 1, Len(s) - 3))

\* (\+-?0x[0-9a-f]+|R\d+)
AddressOffset(s) ==
    \/ /\ Len(s) >= 1
       /\ s[1] = "+"
       /\ \/ HexLiteral(Tail(s))
          \/ Len(s) >= 2 /\ s[2] = "-" /\ HexLiteral(From(s, 3))
    \/ RDigits(s)

\* r"^\[(0x[0-9a-f]+|RZ|R\d+(\.64)?)(\+-?0x[0-9a-f]+|R\d+)?\]$"
address_pattern(arg) ==
    \E b \in Chomp(arg) :
        /\ Len(b) >= 2
        /\ b[1] = "["
        /\ b[Len(b)] = "]"
        /\ LET inner == SubSeq(b, 2, Len(b) - 1) IN
           \E k \in 1..Len(inner) :
               /\ AddressBase(SubSeq(inner, 1, k))
               /\ (k = Len(inner) \/ AddressOffset(From(inner, k + 1)))

Selectors == {<<"H", "1">>, <<"B", "0">>, <<"B", "1">>, <<"B", "2">>, <<"B", "3">>}

\* r"^c\[([^]]+)]\s*(\[[^]]+\])\.?(H1|B0|B1|B2|B3)?": [matched, g1, g2, g3]
const_mem_pattern(arg) ==
    LET nomatch == [matched |-> FALSE, g1 |-> <<>>, g2 |-> <<>>, g3 |-> NoneStr]
        \* the first "]" at or after position i, 0 when there is none
        close(i) == IF \E k \in i..Len(arg) : arg[k] = "]"
                    THEN CHOOSE k \in i..Len(arg) :
                             arg[k] = "]" /\ \A j \in i..(k - 1) : arg[j] # "]"
                    ELSE 0
        \* the first position after c1 that holds no whitespace, 0 when none
        skip(c1) == IF \E k \in (c1 + 1)..Len(arg) : arg[k] \notin Space
                    THEN CHOOSE k \in (c1 + 1)..Len(arg) :
                             arg[k] \notin Space /\ \A j \in (c1 + 1)..(k - 1) : arg[j] \in Space
                    ELSE 0
        \* what follows the second bracket: \.?(H1|B0|B1|B2|B3)?
        selector(rest) ==
            LET tail == IF Len(rest) >= 1 /\ rest[1] = "." THEN Tail(rest) ELSE rest IN
            IF Len(tail) >= 2 /\ SubSeq(tail, 1, 2) \in Selectors
            THEN SubSeq(tail, 1, 2) ELSE NoneStr
        groups(c1, open, c2) ==
            IF c1 < 4 \/ open = 0 \/ c2 < open + 2 THEN nomatch
            ELSE IF arg[open] # "[" THEN nomatch
            ELSE [matched |-> TRUE,
                  g1 |-> SubSeq(arg, 3, c1 - 1),
                  g2 |-> SubSeq(arg, open, c2),
                  g3 |-> selector(From(arg, c2 + 1))]
        second(c1, open) == groups(c1, open, IF open = 0 THEN 0 ELSE close(open + 1))
        first(c1) == second(c1, IF c1 = 0 THEN 0 ELSE skip(c1))
    IN IF Len(arg) >= 2 /\ arg[1] = "c" /\ arg[2] = "[" THEN first(close(3)) ELSE nomatch

\* \d+\.\d+e-?\d+(\.NEG)? matches the whole of s
Scientific(s) ==
    LET number(t, p, q) ==
            /\ p >= 2
            /\ q >= p + 2
            /\ IsDigits(SubSeq(t, 1, p - 1))
            /\ IsDigits(SubSeq(t, p + 1, q - 1))
            /\ \/ IsDigits(From(t, q + 1))
               \/ q < Len(t) /\ t[q + 1] = "-" /\ IsDigits(From(t, q + 2))
        unsuffixed(t) == number(t, find(t, <<".">>), find(t, <<"e">>))
    IN unsuffixed(IF endswith(s, <<".", "N", "E", "G">>) THEN SubSeq(s, 1, Len(s) - 4) ELSE s)

\* r"\d+\.NEG|\d+\.\d+e-?\d+(\.NEG)?$|^[+-]INF$|^\+QNAN$"
float_pattern(arg) ==
    \/ \E i \in 1..Len(arg) : arg[i] \in Digit /\ At(arg, i + 1, <<".", "N", "E", "G">>)
    \/ \E b \in Chomp(arg) : \E i \in 1..Len(b) : Scientific(From(b, i))
    \/ \E b \in Chomp(arg) : b \in {<<"+", "I", "N", "F">>, <<"-", "I", "N", "F">>}
    \/ \E b \in Chomp(arg) : b = <<"+", "Q", "N", "A", "N">>

\* r"(?<!R|#|P)\b\d+$"
dec_pattern(arg) ==
    \E b \in Chomp(arg) : \E i \in 1..Len(b) :
        /\ IsDigits(From(b, i))
        /\ i = 1 \/ (arg[i - 1] \notin WordChar /\ arg[i - 1] \notin {"R", "#", "P"})

\* r"^__fun_[^,\s]+"
jcal_fun_pattern(arg) ==
    /\ startswith(arg, <<"_", "_", "f", "u", "n", "_">>)
    /\ Len(arg) >= 7
    /\ arg[7] \notin ({","} \cup Space)

\* r"^[12]D$"
texture_dimension_pattern(arg) ==
    \E b \in Chomp(arg) : b \in {<<"1", "D">>, <<"2", "D">>}

\* r"^(R|G|A|RG|RA|RGB|RGA|RGBA)$"
texture_component_pattern(arg) ==
    \E b \in Chomp(arg) :
        b \in {<<"R">>, <<"G">>, <<"A">>, <<"R", "G">>, <<"R", "A">>, <<"R", "G", "B">>,
               <<"R", "G", "A">>, <<"R", "G", "B", "A">>}

RegisterSelectors ==
    {<<"H", "0">>, <<"H", "1">>, <<"B", "0">>, <<"B", "1">>, <<"B", "2">>, <<"B", "3">>,
     <<"6", "4">>}

\* r"((?<=\.)((?P<selector>H[01]|B[0-3]|64)|(?P<CC>CC)))(.reuse)?$": the
\* groupdict of the leftmost match, [selector, CC], both None without a match
_REGISTER_PATTERN(symbol) ==
    LET quals == RegisterSelectors \cup {<<"C", "C">>}
        \* what may follow the qualifier: (.reuse)?$
        tailok(t) == \E b \in Chomp(t) :
                        \/ b = <<>>
                        \/ Len(b) = 6 /\ b[1] # "\n" /\ Tail(b) = <<"r", "e", "u", "s", "e">>
        hit(i) == /\ symbol[i - 1] = "."
                  /\ SubSeq(symbol, i, i + 1) \in quals
                  /\ tailok(From(symbol, i + 2))
        groupdict(q) == [selector |-> IF q \in RegisterSelectors THEN q ELSE NoneStr,
                         CC |-> IF q = <<"C", "C">> THEN q ELSE NoneStr]
        leftmost(starts) ==
            IF starts = {} THEN [selector |-> NoneStr, CC |-> NoneStr]
            ELSE LET i == CHOOSE j \in starts : \A k \in starts : j <= k
                 IN groupdict(SubSeq(symbol, i, i + 1))
    IN leftmost({i \in 2..(Len(symbol) - 1) : hit(i)})

(***************************************************************************)
(* The operand classes                                                     *)
(***************************************************************************)
RECURSIVE argument_to_object(_, _)

\* a Register.__init__ that numbers RZ as register 0
Register_ast_RZ_0(symbol) ==
    LET init(v, matches, n) ==
            IF v # <<"R", "Z">> /\ ~n.ok
            THEN Raise("ValueError", "invalid literal for int()")
            ELSE [kind |-> "Register",
                  v |-> v,
                  selector |-> matches.selector,
                  CC |-> matches.CC # NoneStr,
                  reuse |-> FALSE,
                  num |-> IF v = <<"R", "Z">> THEN 0 ELSE n.val]
        named(v) == init(v, _REGISTER_PATTERN(symbol), int(From(v, 2)))
    IN named(split(symbol, ".")[1])

\* Register.__init__ of ast.py
Register_ast(symbol) ==
    LET init(v, matches, n) ==
            IF v # <<"R", "Z">> /\ ~n.ok
            THEN Raise("ValueError", "invalid literal for int()")
            ELSE [kind |-> "Register",
                  v |-> v,
                  selector |-> matches.selector,
                  CC |-> matches.CC # NoneStr,
                  \* the pattern has no group named reuse
                  reuse |-> FALSE,
                  num |-> IF v = <<"R", "Z">> THEN 0 - 1 ELSE n.val]
        named(v) == init(v, _REGISTER_PATTERN(symbol), int(From(v, 2)))
    IN named(split(symbol, ".")[1])

\* Register.__init__ of sass_ast.py: selector is set only when a qualifier
\* is found
Register_sass_ast(symbol) ==
    LET has(q) == \E i \in 1..Len(symbol) : At(symbol, i, q)
        init(base) ==
            IF has(<<".", "H", "1">>) THEN base @@ [selector |-> <<"H", "1">>]
            ELSE IF has(<<".", "B", "0">>) THEN base @@ [selector |-> <<"B", "0">>]
            ELSE IF has(<<".", "B", "1">>) THEN base @@ [selector |-> <<"B", "1">>]
            ELSE IF has(<<".", "B", "2">>) THEN base @@ [selector |-> <<"B", "2">>]
            ELSE IF has(<<"B", "3">>) THEN base @@ [selector |-> <<"B", "3">>]
            ELSE IF has(<<".", "6", "4">>) THEN base @@ [selector |-> <<"6", "4">>]
            ELSE base
    IN init([kind |-> "Register",
             CC |-> has(<<".", "C", "C">>),
             reuse |-> has(<<".", "r", "e", "u", "s", "e">>),
             v |-> split(symbol, ".")[1]])

Register(mod, symbol) ==
    IF mod = "ast" THEN Register_ast(symbol) ELSE Register_sass_ast(symbol)

\* Register.__str__
Register__str__(self) == self.v

CC_Register(symbol) ==
    LET init(args) == [kind |-> "CC_Register",
                       v |-> args[1],
                       condition |-> IF Len(args) > 1 THEN args[2] ELSE NoneStr]
    IN init(split(symbol, "."))

HexImmediate(text) == [kind |-> "HexImmediate", text |-> text]

\* PredicateRegister.__init__: in ast.py v is a property without a setter,
\* so the first assignment raises
PredicateRegister(mod, v) ==
    IF mod = "ast"
    THEN Raise("AttributeError", "property 'v' of 'PredicateRegister' object has no setter")
    ELSE [kind |-> "PredicateRegister", v |-> v, type |-> "Bool"]

Barrier(text) == [kind |-> "Barrier", text |-> text]

FloatImmediate(v) ==
    LET neg == endswith(v, <<".", "N", "E", "G">>) IN
    [kind |-> "FloatImmediate",
     v |-> IF neg THEN <<"-">> \o SubSeq(v, 1, Len(v) - 4) ELSE v,
     negated |-> neg]

DecImmediate(v) == [kind |-> "DecImmediate", v |-> v]

SReg(v) == [kind |-> "SReg", v |-> v]

NamedDependencyBarrier(v) == [kind |-> "NamedDependencyBarrier", v |-> v]

Simulator_function_name(v) == [kind |-> "Simulator_function_name", v |-> v]

TextureDimensionOperand(v) == [kind |-> "TextureDimensionOperand", v |-> v]

TextureComponentOperand(v) == [kind |-> "TextureComponentOperand", v |-> v]

UnaryOp(mod, op, text) ==
    LET init(argument) ==
            IF IsError(argument) THEN argument
            ELSE [kind |-> "UnaryOp",
                  operation |-> op,
                  argument |-> argument,
                  h1 |-> contains(text, <<"H", "1">>)]
    IN IF op \notin {<<"|">>, <<"-">>, <<"!">>, <<"~">>, <<"-", "|">>}
       THEN Raise("ValueError", "")
       ELSE init(argument_to_object(mod, text))

\* assert isinstance(offset, HexImmediate) or (isinstance(offset, UnaryOp)
\*        and isinstance(offset.argument, HexImmediate))
OffsetAsserted(offset) ==
    \/ offset.kind = "HexImmediate"
    \/ offset.kind = "UnaryOp" /\ offset.argument.kind = "HexImmediate"

\* no assertion on the base
BaseUnchecked(mod, base) == TRUE

\* assert isinstance(base, Register) or isinstance(base, HexImmediate);
\* CC_Register is a subclass of Register in sass_ast.py only
BaseAsserted(mod, base) ==
    \/ base.kind \in {"Register", "HexImmediate"}
    \/ mod = "sass_ast" /\ base.kind = "CC_Register"

RegAddress(mod, text) ==
    LET init(noBracket, plus, base, offset) ==
            IF IsError(base) THEN base
            ELSE IF IsError(offset) THEN offset
            ELSE IF plus > 0 /\ ~OffsetAsserted(offset)
            THEN Raise("AssertionError",
                       "offset of RegAddress must be a HexImmediate or UnaryOp on HexImmediate")
            ELSE IF ~BaseAsserted(mod, base)
            THEN Raise("AssertionError",
                       "Base of RegAddress must be a Register or HexImmediate")
            ELSE [kind |-> "RegAddress", base |-> base, offset |-> offset,
                  text |-> noBracket]
        halves(noBracket, plus) ==
            init(noBracket, plus,
                 argument_to_object(mod, IF plus > 0 THEN SubSeq(noBracket, 1, plus - 1)
                                                     ELSE noBracket),
                 IF plus > 0 THEN argument_to_object(mod, From(noBracket, plus + 1))
                             ELSE None)
        unbracketed(noBracket) == halves(noBracket, find(noBracket, <<"+">>))
    IN unbracketed(SelectSeq(text, LAMBDA c : c \notin {"[", "]"}))

ConstantAccess(bank, offset, selector) ==
    IF IsError(bank) THEN bank
    ELSE IF IsError(offset) THEN offset
    ELSE [kind |-> "ConstantAccess", bank |-> bank, offset |-> offset,
          selector |-> selector]

(***************************************************************************)
(* The classifier                                                          *)
(***************************************************************************)
argument_to_object(mod, arg0) ==
    LET cascade(arg, cmatch) ==
            IF texture_dimension_pattern(arg) THEN TextureDimensionOperand(arg)
            ELSE IF texture_component_pattern(arg) THEN TextureComponentOperand(arg)
            ELSE IF jcal_fun_pattern(arg) THEN Simulator_function_name(arg)
            ELSE IF named_depbar_pattern(arg) THEN NamedDependencyBarrier(arg)
            ELSE IF sreg_pattern(arg) THEN SReg(arg)
            ELSE IF cmatch.matched
            THEN ConstantAccess(argument_to_object(mod, cmatch.g1),
                                argument_to_object(mod, cmatch.g2),
                                cmatch.g3)
            ELSE IF count(arg, "|") = 2
            THEN IF startswith(arg, <<"-", "|">>)
                 THEN UnaryOp(mod, <<"-", "|">>,
                              SelectSeq(arg, LAMBDA c : c \notin {"|", "-"}))
                 ELSE UnaryOp(mod, <<"|">>, SelectSeq(arg, LAMBDA c : c # "|"))
            \* arg[0] of an empty string
            ELSE IF arg = <<>> THEN Raise("IndexError", "string index out of range")
            ELSE IF arg[1] = "!" THEN UnaryOp(mod, <<"!">>, lstrip(arg, {"!"}))
            ELSE IF arg[1] = "~" THEN UnaryOp(mod, <<"~">>, strip(arg, {"~"}))
            ELSE IF arg[1] = "-" /\ ~contains(arg, <<"-", "I", "N", "F">>)
            THEN UnaryOp(mod, <<"-">>, lstrip(arg, {"-"}))
            ELSE IF startswith(arg, <<"C", "C">>) THEN CC_Register(arg)
            ELSE IF arg[1] = "R" THEN Register(mod, arg)
            ELSE IF arg[1] = "P" THEN PredicateRegister(mod, arg)
            ELSE IF startswith(arg, <<"0", "x">>) THEN HexImmediate(arg)
            ELSE IF arg[1] = "{" THEN Barrier(arg)
            ELSE IF float_pattern(arg) THEN FloatImmediate(arg)
            ELSE IF dec_pattern(arg) THEN DecImmediate(arg)
            ELSE IF address_pattern(arg) THEN RegAddress(mod, arg)
            ELSE Raise("ValueError", "[sass_ast.py]: Unable to parse")
        stripped(arg) == cascade(arg, const_mem_pattern(arg))
    IN stripped(replace(arg0, <<".", "r", "e", "u", "s", "e">>, <<>>))

(***************************************************************************)
(* HexImmediate.to_smt, which only sass_ast.py defines                     *)
(***************************************************************************)
\* "0" * n: the empty string when n <= 0
Zeros(n) == [i \in 1..n |-> "0"]

to_smt(mod, self, width) ==
    LET padded(val, digits) == <<"#", "x">> \o Zeros(digits - Len(val)) \o val IN
    IF mod = "ast"
    THEN Raise("AttributeError", "'HexImmediate' object has no attribute 'to_smt'")
    ELSE IF width \notin {32, 16, 64} THEN Raise("ValueError", "")
    ELSE Str(padded(lstrip(self.text, {"0", "x"}),
                    IF width = 32 THEN 8 ELSE IF width = 16 THEN 4 ELSE 16))

(***************************************************************************)
(* __eq__ and __hash__                                                     *)
(***************************************************************************)
\* isinstance(x, cls), with CC_Register(Register) in sass_ast.py
isinstance(mod, x, cls) ==
    \/ x.kind = cls
    \/ mod = "sass_ast" /\ cls = "Register" /\ x.kind = "CC_Register"

Register__eq__(mod, self, other) ==
    /\ isinstance(mod, other, "Register")
    /\ IF mod = "ast"
       THEN <<self.v, self.selector, self.CC>> = <<other.v, other.selector, other.CC>>
       ELSE self.v = other.v

CC_Register__eq__(mod, self, other) == isinstance(mod, other, "CC_Register")

PredicateRegister__eq__(mod, self, other) ==
    isinstance(mod, other, "PredicateRegister") /\ self.v = other.v

__eq__(mod, self, other) ==
    IF self.kind = "Register" THEN Register__eq__(mod, self, other)
    ELSE IF self.kind = "CC_Register" THEN CC_Register__eq__(mod, self, other)
    ELSE PredicateRegister__eq__(mod, self, other)

\* a == b: the __eq__ of b goes first when b's class is a proper subclass
\* of a's class that overrides it
eq(mod, a, b) ==
    IF mod = "sass_ast" /\ a.kind = "Register" /\ b.kind = "CC_Register"
    THEN __eq__(mod, b, a)
    ELSE __eq__(mod, a, b)

\* hash() of a str under the interpreter's hash seed: equal strings hash
\* alike, different strings need not collide
RECURSIVE hash_str(_, _)
hash_str(s, hseed) ==
    IF s = <<>> THEN hseed
    ELSE (hash_str(SubSeq(s, 1, Len(s) - 1), hseed) * 33 + ord(s[Len(s)])) % 65521

\* hash(None) and hash() of a bool do not depend on the seed
hash_bool(x) == IF x THEN 1 ELSE 0

hash_optional_str(x, hseed) == IF x = NoneStr THEN 7 ELSE hash_str(x, hseed)

\* hash() of a tuple, from the hashes of its items
RECURSIVE hash_tuple(_)
hash_tuple(hashes) ==
    IF hashes = <<>> THEN 1
    ELSE (hash_tuple(SubSeq(hashes, 1, Len(hashes) - 1)) * 31 + hashes[Len(hashes)]) % 65521

Register__hash__(mod, self, hseed) ==
    IF mod = "ast"
    THEN hash_tuple(<<hash_str(self.v, hseed),
                      hash_optional_str(self.selector, hseed),
                      hash_bool(self.CC)>>)
    ELSE hash_str(self.v, hseed)

CC_Register__hash__(self, hseed) == hash_str(self.v, hseed)

PredicateRegister__hash__(self, hseed) == hash_str(self.v, hseed)

__hash__(mod, self, hseed) ==
    IF self.kind = "Register" THEN Register__hash__(mod, self, hseed)
    ELSE IF self.kind = "CC_Register" THEN CC_Register__hash__(self, hseed)
    ELSE PredicateRegister__hash__(self, hseed)

(***************************************************************************)
(* __str__                                                                 *)
(***************************************************************************)
\* type(self).__module__ and type(self).__qualname__ of the two classes
\* without a __str__
module_name(mod) ==
    IF mod = "ast" THEN <<"s", "a", "s", "s", "_", "i", "s", "a", "_", "a", "s", "t", ".", "a", "s", "t">>
    ELSE <<"s", "a", "s", "s", "_", "i", "s", "a", "_", "a", "s", "t", ".", "s", "a", "s", "s", "_", "a", "s", "t">>

class_name(self) ==
    IF self.kind = "Barrier" THEN <<"B", "a", "r", "r", "i", "e", "r">>
    ELSE <<"C", "o", "n", "s", "t", "a", "n", "t", "A", "c", "c", "e", "s", "s">>

\* object.__repr__, the str() of a class that defines no __str__
object__str__(mod, self, address) ==
    <<"<">> \o module_name(mod) \o <<".">> \o class_name(self)
        \o <<" ", "o", "b", "j", "e", "c", "t", " ", "a", "t", " ", "0", "x">> \o address \o <<">">>

\* CC_Register.__str__
CC_Register__str__(self) ==
    self.v \o (IF self.condition # NoneStr THEN <<".">> \o self.condition ELSE <<>>)

\* str(self), by the class of self
RECURSIVE __str__(_, _, _)
__str__(mod, self, address) ==
    LET UnaryOp__str__(argument) ==
            IF self.operation = <<"|">> THEN <<"|">> \o argument \o <<"|">>
            ELSE IF self.operation = <<"-", "|">> THEN <<"-", "|">> \o argument \o <<"|">>
            ELSE self.operation \o argument
    IN IF self.kind = "Register" THEN Register__str__(self)
       ELSE IF self.kind = "CC_Register" THEN CC_Register__str__(self)
       ELSE IF self.kind \in {"HexImmediate", "RegAddress"} THEN self.text
       ELSE IF self.kind = "UnaryOp"
       THEN UnaryOp__str__(__str__(mod, self.argument, address))
       ELSE IF self.kind \in {"Barrier", "ConstantAccess"}
       THEN object__str__(mod, self, address)
       ELSE self.v

\* the rendering of an operand: str(self), or the attribute self.text
render(mod, self, via, address) ==
    IF via = "str" THEN Str(__str__(mod, self, address))
    ELSE IF "text" \in DOMAIN self THEN Str(self.text)
    ELSE Raise("AttributeError", "object has no attribute 'text'")

(***************************************************************************)
(* Instruction and Statement                                               *)
(***************************************************************************)
\* re.sub(r"@!?P[TN\d]\s", "", text)
RECURSIVE sub_guard(_)
sub_guard(text) ==
    LET body(i) == /\ At(text, i, <<"P">>)
                   /\ i + 2 <= Len(text)
                   /\ text[i + 1] \in ({"T", "N"} \cup Digit)
                   /\ text[i + 2] \in Space
    IN IF text = <<>> THEN <<>>
       ELSE IF text[1] = "@" /\ At(text, 2, <<"!">>) /\ body(3)
       THEN sub_guard(From(text, 6))
       ELSE IF text[1] = "@" /\ body(2) THEN sub_guard(From(text, 5))
       ELSE <<text[1]>> \o sub_guard(Tail(text))

\* re.sub(r"\s{2,}", " ", text)
RECURSIVE sub_spaces(_)
sub_spaces(text) ==
    IF text = <<>> THEN <<>>
    ELSE IF Len(text) >= 2 /\ text[1] \in Space /\ text[2] \in Space
    THEN <<" ">> \o sub_spaces(lstrip(text, Space))
    ELSE <<text[1]>> \o sub_spaces(Tail(text))

\* the loop over the operand tokens: [raised, args], where the first
\* failure ends the loop and is what raised holds (None without a failure)
RECURSIVE arguments(_, _)
arguments(mod, toks) ==
    LET more(a, rest) == [raised |-> rest.raised, args |-> <<a>> \o rest.args]
        append(a) == IF IsError(a) THEN [raised |-> a, args |-> <<>>]
                     ELSE more(a, arguments(mod, Tail(toks)))
    IN IF toks = <<>> THEN [raised |-> None, args |-> <<>>]
       ELSE append(argument_to_object(mod, toks[1]))

\* the mnemonic without the suffix rule
mnemonic_unsuffixed(selftext, text, mnemonic) == mnemonic

\* if ".CC" in text or self.text == "IMNMX.XHI": self.sass_instruction += "CC"
sass_instruction(selftext, text, mnemonic) ==
    IF \/ contains(text, <<".", "C", "C">>)
       \/ selftext = <<"I", "M", "N", "M", "X", ".", "X", "H", "I">>
    THEN mnemonic \o <<"C", "C">>
    ELSE mnemonic

Instruction(mod, text0) ==
    LET init(selftext, text, mnemonic, args) ==
            IF args.raised # None THEN args.raised
            ELSE [kind |-> "Instruction",
                  text |-> selftext,
                  arguments |-> args.args,
                  sass_instruction |-> sass_instruction(selftext, text, mnemonic)]
        tokens(selftext, text, toks) ==
            IF toks = <<>> THEN Raise("IndexError", "list index out of range")
            ELSE init(selftext, text, SelectSeq(toks[1], LAMBDA c : c # " "),
                      arguments(mod, Tail(toks)))
        normalized(selftext, text) ==
            tokens(selftext, text, split_ws(replace(text, <<",", " ">>, <<" ">>)))
        unguarded(selftext) ==
            normalized(selftext, sub_spaces(replace(selftext, <<",", " ">>, <<" ">>)))
        unbracketed(text) ==
            unguarded(IF \E i \in 1..Len(text) : text[i] = "@" THEN sub_guard(text) ELSE text)
    IN unbracketed(replace(text0, <<"]", " ", "[">>, <<"]", "[">>))

Statement(mod, label, text0) ==
    LET init(text, predicated, inverted, predReg, instruction) ==
            \* the bare except around the predicate register
            IF IsError(predReg) THEN Raise("ValueError", "Unable to parse: ")
            ELSE IF IsError(instruction) THEN instruction
            ELSE [kind |-> "Statement",
                  label |-> label,
                  text |-> text,
                  predicated |-> predicated,
                  inverted |-> inverted,
                  predReg |-> predReg,
                  instruction |-> instruction]
        guard(text, predicated, inverted, toks) ==
            init(text, predicated, inverted,
                 IF ~predicated THEN None
                 ELSE IF toks = <<>> THEN Raise("IndexError", "list index out of range")
                 ELSE PredicateRegister(mod, From(toks[1], IF inverted THEN 3 ELSE 2)),
                 Instruction(mod, text))
        unbracketed(text) ==
            guard(text,
                  \E i \in 1..Len(text) : text[i] = "@",
                  \E i \in 1..Len(text) : At(text, i, <<"@", "!">>),
                  split_ws(replace(text, <<",", " ">>, <<" ">>)))
    IN unbracketed(replace(text0, <<"]", " ", "[">>, <<"]", "[">>))

(***************************************************************************)
(* The inputs of the calls                                                 *)
(***************************************************************************)
Files == {"ast", "sass_ast"}

\* the strings over an alphabet of at most n characters
Strings(alphabet, n) == UNION {[1..k -> alphabet] : k \in 0..n}

Cat(A, B) == {a \o b : a \in A, b \in B}

Cat3(A, B, C) == Cat(Cat(A, B), C)

MaxLen == 2

MaxDigits == 2

MaxHexLen == 5

MaxNest == 1

MaxOperands == 3

MaxStmtOperands == 1

MaxSeed == 1

Sigma == {"R", "P", "C", "Z", "T", "D", "G", "0", "1", "x", "a", "-", "|", "!", "~",
          ".", "[", "]", "+", "{", "#", " ", "_"}

\* every short string, well formed or not
ShortTokens == Strings(Sigma, MaxLen)

Qualifiers == {<<>>, <<".", "H", "0">>, <<".", "H", "1">>, <<".", "B", "0">>,
               <<".", "B", "1">>, <<".", "B", "2">>, <<".", "B", "3">>,
               <<".", "6", "4">>, <<".", "C", "C">>}

Reuse == {<<>>, <<".", "r", "e", "u", "s", "e">>}

Numbers == Strings({"0", "1", "9"}, MaxDigits) \ {<<>>}

\* R<n> and RZ, with a qualifier and a reuse flag
RegisterTokens ==
    Cat3({<<"R", "Z">>} \cup Cat({<<"R">>}, Numbers), Qualifiers, Reuse)

\* P<n> and PT
PredicateTokens == {<<"P", "T">>} \cup Cat({<<"P">>}, Numbers)

\* 0x<digits>
HexTokens == Cat({<<"0", "x">>}, Strings({"0", "a", "A"}, MaxHexLen) \ {<<>>})

Widths == {8, 16, 32, 64}

\* one token of every operand kind, and a branch label
LeafTokens ==
    {<<"R", "1">>, <<"R", "Z">>, <<"R", "1", ".", "H", "1">>, <<"P", "0">>, <<"P", "T">>,
     <<"C", "C">>, <<"C", "C", ".", "N", "E">>, <<"C", "C", "X">>,
     <<"0", "x", "4">>, <<"5">>, <<"1", "2">>,
     <<"1", ".", "5", "e", "-", "3">>, <<"1", ".", "N", "E", "G">>,
     <<"1", ".", "0", "e", "5", ".", "N", "E", "G">>,
     <<"+", "I", "N", "F">>, <<"-", "I", "N", "F">>, <<"+", "Q", "N", "A", "N">>,
     <<"S", "R", "_", "T", "I", "D">>, <<"S", "B", "1">>,
     <<"_", "_", "f", "u", "n", "_", "x">>, <<"1", "D">>, <<"R", "G", "B", "A">>,
     <<"{", "1", "}">>, <<"L", "_", "2">>}

\* X, |X|, -|X|, -X, !X, ~X
Wrapped(X) ==
    X \cup Cat3({<<"|">>, <<"-", "|">>}, X, {<<"|">>})
      \cup Cat({<<"-">>, <<"!">>, <<"~">>}, X)

RECURSIVE Nested(_)
Nested(n) == IF n = 0 THEN LeafTokens ELSE Wrapped(Nested(n - 1))

UnaryTokens == Nested(MaxNest)

AddressBases ==
    {<<"R", "1">>, <<"R", "Z">>, <<"R", "1", ".", "6", "4">>, <<"0", "x", "4">>,
     <<"P", "0">>, <<"C", "C">>, <<"-", "R", "1">>, <<"1">>, <<"0", "x", "4", "R", "2">>}

AddressOffsets ==
    {<<>>, <<"+", "0", "x", "4">>, <<"+", "-", "0", "x", "4">>, <<"+", "R", "2">>,
     <<"+", "P", "0">>, <<"+", "!", "0", "x", "4">>, <<"R", "2">>}

\* [base], [base+offset], [baseR<n>]
AddressTokens == Cat3({<<"[">>}, Cat(AddressBases, AddressOffsets), {<<"]">>})

\* c[bank][offset] with a selector
ConstantTokens ==
    Cat3(Cat3({<<"c", "[">>}, {<<"0", "x", "0">>, <<"P", "0">>}, {<<"]">>, <<"]", " ">>}),
         {<<"[", "R", "1", "]">>, <<"[", "R", "1", "+", "0", "x", "4", "]">>,
          <<"[", "P", "0", "]">>, <<"[", "0", "x", "4", "]">>},
         {<<>>, <<".", "H", "1">>, <<"B", "0">>, <<".", "6", "4">>, <<".">>})

\* tokens with two operators
CombinedTokens ==
    {<<"-", "!", "R", "1">>, <<"!", "-", "R", "1">>, <<"-", "~", "R", "1">>, <<"|", "-", "R", "1", "|">>, <<"-", "|", "R", "1", ".", "H", "1", "|">>}

Tokens ==
    ShortTokens \cup RegisterTokens \cup PredicateTokens \cup HexTokens
        \cup UnaryTokens \cup AddressTokens \cup ConstantTokens \cup Reuse
        \cup CombinedTokens

\* the tokens rendered and classified again
RenderedTokens ==
    RegisterTokens \cup PredicateTokens \cup UnaryTokens \cup AddressTokens
        \cup ConstantTokens \cup CombinedTokens

\* the ways to render an operand: str(x) and x.text
Renderings == {"str", "text"}

\* id(self), in hexadecimal, as the default repr prints it
Addresses == {<<"7", "f", "0", "0">>, <<"7", "f", "3", "a", "1", "0">>}

\* the operands hashed and compared
KeyTokens ==
    {<<"R", "1">>, <<"R", "1", ".", "H", "1">>, <<"R", "1", ".", "C", "C">>, <<"R", "2">>,
     <<"R", "Z">>, <<"P", "0">>, <<"P", "1">>, <<"C", "C">>, <<"C", "C", ".", "N", "E">>,
     <<"C", "C", "X">>}

Mnemonics ==
    {<<"I", "A", "D", "D">>, <<"I", "A", "D", "D", ".", "C", "C">>,
     <<"I", "M", "N", "M", "X", ".", "X", "H", "I">>}

OperandTokens ==
    {<<"R", "1">>, <<"R", "2">>, <<"R", "3">>, <<"R", "1", ".", "C", "C">>,
     <<"L", "_", "2">>, <<"[", "R", "1", "+", "0", "x", "4", "]">>}

Guards == {<<>>, <<"@", "!", "P", "0", " ">>}

StmtGuards ==
    {<<>>, <<"@", "P", "0", " ">>, <<"@", "!", "P", "0", " ">>, <<"@", "!", "P", "T", " ">>,
     <<"@", "P", "1", "0", " ">>, <<"@", " ">>}

StmtMnemonics == {<<"B", "R", "A">>, <<"I", "A", "D", "D">>}

StmtOperandTokens == {<<"L", "_", "2">>, <<"0", "x", "1", "0">>, <<"R", "1">>}

Labels == {<<"L", "_", "1">>, <<>>}

\* ", ".join(toks)
RECURSIVE join(_)
join(toks) ==
    IF toks = <<>> THEN <<>>
    ELSE IF Len(toks) = 1 THEN toks[1]
    ELSE toks[1] \o <<",", " ">> \o join(Tail(toks))

\* the line of disassembly with this guard, mnemonic and operand tokens
Line(guard, mnemonic, toks) ==
    guard \o mnemonic \o (IF toks = <<>> THEN <<>> ELSE <<" ">> \o join(toks))

NoParts == [guard |-> <<>>, mnemonic |-> <<>>, operands |-> <<>>]

(***************************************************************************)
(* The calls                                                               *)
(***************************************************************************)
Init ==
    /\ pc = "ready"
    /\ file = "ast"
    /\ call = "none"
    /\ line = <<>>
    /\ parts = NoParts
    /\ lbl = <<>>
    /\ bits = 0
    /\ token2 = <<>>
    /\ seed = 0
    /\ result = None

\* argument_to_object(tok)
Classify ==
    /\ pc = "ready"
    /\ \E f \in Files, tok \in Tokens :
        /\ file' = f
        /\ line' = tok
        /\ result' = argument_to_object(f, tok)
    /\ call' = "argument_to_object"
    /\ pc' = "done"
    /\ UNCHANGED <<parts, lbl, bits, token2, seed>>

\* RegAddress(tok), the class constructed directly
ConstructRegAddress ==
    /\ pc = "ready"
    /\ \E f \in Files, tok \in AddressTokens :
        /\ file' = f
        /\ line' = tok
        /\ result' = RegAddress(f, tok)
    /\ call' = "RegAddress"
    /\ pc' = "done"
    /\ UNCHANGED <<parts, lbl, bits, token2, seed>>

\* argument_to_object(tok).to_smt(w)
ToSmt ==
    /\ pc = "ready"
    /\ \E f \in Files, tok \in HexTokens, w \in Widths :
        /\ file' = f
        /\ line' = tok
        /\ bits' = w
        /\ \E self \in {argument_to_object(f, tok)} :
               result' = IF IsError(self) THEN self ELSE to_smt(f, self, w)
    /\ call' = "to_smt"
    /\ pc' = "done"
    /\ UNCHANGED <<parts, lbl, token2, seed>>

\* a == b, hash(a) and hash(b) for a = argument_to_object(ta) and
\* b = argument_to_object(tb)
Compare ==
    /\ pc = "ready"
    /\ \E f \in Files, ta \in KeyTokens, tb \in KeyTokens, hs \in 0..MaxSeed :
        /\ file' = f
        /\ line' = ta
        /\ token2' = tb
        /\ seed' = hs
        /\ \E a \in {argument_to_object(f, ta)}, b \in {argument_to_object(f, tb)} :
               result' = IF IsError(a) THEN a
                         ELSE IF IsError(b) THEN b
                         ELSE [kind |-> "Comparison",
                               a |-> a,
                               b |-> b,
                               eq |-> eq(f, a, b),
                               hash_a |-> __hash__(f, a, hs),
                               hash_b |-> __hash__(f, b, hs)]
    /\ call' = "compare"
    /\ pc' = "done"
    /\ UNCHANGED <<parts, lbl, bits>>

\* argument_to_object(render(argument_to_object(tok)))
RoundTrip ==
    /\ pc = "ready"
    /\ \E f \in Files, tok \in RenderedTokens, via \in Renderings, address \in Addresses :
        /\ file' = f
        /\ line' = tok
        /\ \E first \in {argument_to_object(f, tok)} :
               IF IsError(first) THEN result' = first
               ELSE \E rendering \in {render(f, first, via, address)} :
                        result' = [kind |-> "RoundTrip",
                                   via |-> via,
                                   first |-> first,
                                   rendering |-> rendering,
                                   second |-> IF IsError(rendering) THEN rendering
                                              ELSE argument_to_object(f, rendering.value)]
    /\ call' = "round_trip"
    /\ pc' = "done"
    /\ UNCHANGED <<parts, lbl, bits, token2, seed>>

\* Instruction(text)
ParseInstruction ==
    /\ pc = "ready"
    /\ \E f \in Files, g \in Guards, m \in Mnemonics,
          toks \in Strings(OperandTokens, MaxOperands) :
        /\ file' = f
        /\ parts' = [guard |-> g, mnemonic |-> m, operands |-> toks]
        /\ \E t \in {Line(g, m, toks)} :
               line' = t /\ result' = Instruction(f, t)
    /\ call' = "Instruction"
    /\ pc' = "done"
    /\ UNCHANGED <<lbl, bits, token2, seed>>

\* Statement(label, text)
ParseStatement ==
    /\ pc = "ready"
    /\ \E f \in Files, l \in Labels, g \in StmtGuards, m \in StmtMnemonics,
          toks \in Strings(StmtOperandTokens, MaxStmtOperands) :
        /\ file' = f
        /\ lbl' = l
        /\ parts' = [guard |-> g, mnemonic |-> m, operands |-> toks]
        /\ \E t \in {Line(g, m, toks)} :
               line' = t /\ result' = Statement(f, l, t)
    /\ call' = "Statement"
    /\ pc' = "done"
    /\ UNCHANGED <<bits, token2, seed>>

\* the caller has the result and goes on to the next call
Return ==
    /\ pc = "done"
    /\ pc' = "ready"
    /\ file' = "ast"
    /\ call' = "none"
    /\ line' = <<>>
    /\ parts' = NoParts
    /\ lbl' = <<>>
    /\ bits' = 0
    /\ token2' = <<>>
    /\ seed' = 0
    /\ result' = None

Next ==
    \/ Classify
    \/ ConstructRegAddress
    \/ ToSmt
    \/ Compare
    \/ RoundTrip
    \/ ParseInstruction
    \/ ParseStatement
    \/ Return

Spec == Init /\ [][Next]_vars

(***************************************************************************)
(* The properties                                                          *)
(***************************************************************************)
Done(c) == pc = "done" /\ call = c

R1 == <<"R", "1">>

R2 == <<"R", "2">>

R3 == <<"R", "3">>

L_2 == <<"L", "_", "2">>

SuffixCC == <<"C", "C">>

\* [classify(t1), ..., classify(tk)]
RECURSIVE Classified(_, _)
Classified(f, toks) ==
    IF toks = <<>> THEN <<>>
    ELSE <<argument_to_object(f, toks[1])>> \o Classified(f, Tail(toks))

\* the value of a string of decimal digits
RECURSIVE IndexOf(_)
IndexOf(digits) ==
    IF digits = <<>> THEN 0
    ELSE 10 * IndexOf(SubSeq(digits, 1, Len(digits) - 1))
         + (CHOOSE d \in 0..9 : DigitSeq[d + 1] = digits[Len(digits)])

\* C1: Statement("L_1", "@!P0 BRA L_2") succeeds with predicated and
\* inverted true, the predicate register P0, and an Instruction of mnemonic
\* BRA whose one operand is classified from L_2.
C1_GuardedStatement ==
    (/\ Done("Statement")
     /\ lbl = <<"L", "_", "1">>
     /\ line = <<"@", "!", "P", "0", " ", "B", "R", "A", " ", "L", "_", "2">>)
    => /\ ~IsError(result)
       /\ result.predicated
       /\ result.inverted
       /\ result.predReg.kind = "PredicateRegister"
       /\ result.predReg.v = <<"P", "0">>
       /\ result.instruction.sass_instruction = <<"B", "R", "A">>
       /\ Len(result.instruction.arguments) = 1
       /\ result.instruction.arguments = Classified(file, <<L_2>>)
       /\ ~IsError(result.instruction.arguments[1])

\* the tokens a text was written from put a .CC qualifier in it, or the
\* text is the bare IMNMX.XHI
Suffixed ==
    \/ contains(parts.mnemonic, <<".", "C", "C">>)
    \/ \E i \in 1..Len(parts.operands) : contains(parts.operands[i], <<".", "C", "C">>)
    \/ /\ parts.operands = <<>>
       /\ parts.mnemonic = <<"I", "M", "N", "M", "X", ".", "X", "H", "I">>

\* C2 (as amended): Instruction on an unguarded text "M t1, ..., tk": when
\* every ti classifies, the operands are [classify(t1), ..., classify(tk)],
\* in the order and number of the tokens, and the mnemonic is M, followed by
\* CC when the text holds a .CC qualifier or is the bare IMNMX.XHI; when
\* some ti does not classify, the call fails as classify(ti) does for the
\* first such ti.
C2_OperandsInOrder ==
    LET holds(expected) ==
            LET failures == {i \in 1..Len(expected) : IsError(expected[i])} IN
            IF failures = {}
            THEN /\ ~IsError(result)
                 /\ Len(result.arguments) = Len(parts.operands)
                 /\ result.arguments = expected
                 /\ result.sass_instruction =
                        IF Suffixed THEN parts.mnemonic \o SuffixCC ELSE parts.mnemonic
            ELSE result = expected[CHOOSE i \in failures : \A j \in failures : i <= j]
    IN (Done("Instruction") /\ parts.guard = <<>>)
       => holds(Classified(file, parts.operands))

\* C2 reaches "IADD R1, R2, R3" with IADD and the three registers
C2_Witness ==
    /\ Done("Instruction")
    /\ parts = [guard |-> <<>>, mnemonic |-> <<"I", "A", "D", "D">>,
                operands |-> <<R1, R2, R3>>]
    /\ result.kind = "Instruction"
    /\ result.sass_instruction = <<"I", "A", "D", "D">>
    /\ Len(result.arguments) = 3
    /\ \A i \in 1..3 : result.arguments[i].kind = "Register"

\* C2 as it was stated: whenever every ti classifies, the mnemonic is M and
\* the operands are [classify(t1), ..., classify(tk)].
C2_MnemonicIsFirstToken ==
    LET holds(expected) ==
            (\A i \in 1..Len(expected) : ~IsError(expected[i]))
            => /\ ~IsError(result)
               /\ result.arguments = expected
               /\ result.sass_instruction = parts.mnemonic
    IN (Done("Instruction") /\ parts.guard = <<>>)
       => holds(Classified(file, parts.operands))

IADD_CC_Line ==
    <<"I", "A", "D", "D", ".", "C", "C", " ", "R", "1", ",", " ", "R", "2", ",", " ",
      "R", "3">>

ThreeRegisters(args) ==
    /\ Len(args) = 3
    /\ \A i \in 1..3 : args[i].kind = "Register"
    /\ <<Register__str__(args[1]), Register__str__(args[2]), Register__str__(args[3])>>
           = <<R1, R2, R3>>

\* C3 (as amended): Instruction("IADD.CC R1, R2, R3") has the mnemonic
\* IADD.CCCC, the first token IADD.CC with the literal CC appended, and the
\* three operands Register R1, R2, R3.
C3_SuffixAppendedToToken ==
    (Done("Instruction") /\ line = IADD_CC_Line)
    => /\ ~IsError(result)
       /\ result.sass_instruction = <<"I", "A", "D", "D", ".", "C", "C", "C", "C">>
       /\ ThreeRegisters(result.arguments)

C3_Witness ==
    /\ Done("Instruction")
    /\ line = IADD_CC_Line
    /\ result.kind = "Instruction"
    /\ result.sass_instruction = parts.mnemonic \o SuffixCC
    /\ Len(result.arguments) = 3

\* C3 as it was stated: Instruction("IADD.CC R1, R2, R3") has the mnemonic
\* IADDCC and the three operands Register R1, R2, R3.
C3_MnemonicIADDCC ==
    (Done("Instruction") /\ line = IADD_CC_Line)
    => /\ ~IsError(result)
       /\ result.sass_instruction = <<"I", "A", "D", "D", "C", "C">>
       /\ ThreeRegisters(result.arguments)

\* C4: for every token R<n> or RZ, with or without a qualifier (.H0, .H1,
\* .B0 to .B3, .64, .CC) and a .reuse flag, argument_to_object returns a
\* Register that renders as the base token R<n> or RZ; the Register of ast.py
\* has num = n, and num = -1 for RZ.
C4_RegisterIndex ==
    (Done("argument_to_object") /\ line \in RegisterTokens) =>
        /\ \A q \in Qualifiers, r \in Reuse :
               line = <<"R", "Z">> \o q \o r
               => /\ result.kind = "Register"
                  /\ Register__str__(result) = <<"R", "Z">>
                  /\ file = "ast" => result.num = 0 - 1
        /\ \A n \in Numbers, q \in Qualifiers, r \in Reuse :
               line = <<"R">> \o n \o q \o r
               => /\ result.kind = "Register"
                  /\ Register__str__(result) = <<"R">> \o n
                  /\ file = "ast" => result.num = IndexOf(n)

\* C4 reaches a two-digit register with a qualifier
C4_Witness ==
    /\ Done("argument_to_object")
    /\ file = "ast"
    /\ line = <<"R", "1", "9", ".", "6", "4">>
    /\ result.kind = "Register"
    /\ result.num = 19
    /\ result.v = <<"R", "1", "9">>

\* C5: for every token P<n>, and for PT, argument_to_object succeeds and
\* returns a PredicateRegister whose name is the token and whose num is n,
\* or -1 for PT (num is an attribute of the PredicateRegister of ast.py).
C5_PredicateIndex ==
    Done("argument_to_object") =>
        /\ line = <<"P", "T">>
           => /\ ~IsError(result)
              /\ result.kind = "PredicateRegister"
              /\ result.v = line
              /\ file = "ast" => result.num = 0 - 1
        /\ \A n \in Numbers :
               line = <<"P">> \o n
               => /\ ~IsError(result)
                  /\ result.kind = "PredicateRegister"
                  /\ result.v = line
                  /\ file = "ast" => result.num = IndexOf(n)

\* the value of a string of hexadecimal digits of either case
RECURSIVE HexValue(_)
HexValue(digits) ==
    LET HexSeq == <<"0", "1", "2", "3", "4", "5", "6", "7", "8", "9",
                    "a", "b", "c", "d", "e", "f">>
        UpperHexSeq == <<"0", "1", "2", "3", "4", "5", "6", "7", "8", "9",
                         "A", "B", "C", "D", "E", "F">>
        value(c) == CHOOSE d \in 0..15 : HexSeq[d + 1] = c \/ UpperHexSeq[d + 1] = c
    IN IF digits = <<>> THEN 0
       ELSE 16 * HexValue(SubSeq(digits, 1, Len(digits) - 1)) + value(digits[Len(digits)])

\* C6: for every token 0x<digits>, to_smt (of sass_ast.py, the file that has
\* it) for width 32, 16 or 64 returns "#x" followed by exactly 8, 4 or 16 hex
\* digits, the literal's value padded with zeros on the left; any other
\* width fails.
C6_FixedWidthHex ==
    (Done("to_smt") /\ file = "sass_ast") =>
        IF bits \in {32, 16, 64}
        THEN /\ result.kind = "str"
             /\ Len(result.value) = 2 + bits \div 4
             /\ SubSeq(result.value, 1, 2) = <<"#", "x">>
             /\ HexValue(From(result.value, 3)) = HexValue(From(line, 3))
        ELSE IsError(result)

\* C7: for every classifiable X, argument_to_object("|X|") and
\* argument_to_object("-|X|") are the UnaryOp "|" and "-|" whose argument is
\* argument_to_object(X); argument_to_object("-R1") is the UnaryOp "-" on
\* Register R1.
C7_AbsoluteValueWrapsOperand ==
    LET wraps(op, X) ==
            /\ ~IsError(result)
            /\ result.kind = "UnaryOp"
            /\ result.operation = op
            /\ result.argument = X
        wrapped(X, inner) ==
            ~IsError(inner)
            => /\ line = <<"|">> \o X \o <<"|">> => wraps(<<"|">>, inner)
               /\ line = <<"-", "|">> \o X \o <<"|">> => wraps(<<"-", "|">>, inner)
    IN Done("argument_to_object") =>
        /\ \A X \in LeafTokens :
               line \in {<<"|">> \o X \o <<"|">>, <<"-", "|">> \o X \o <<"|">>}
               => wrapped(X, argument_to_object(file, X))
        /\ line = <<"-">> \o R1 => wraps(<<"-">>, Register(file, R1))

\* the base and the offset of a RegAddress are of the kinds it admits
ValidAddress(a) ==
    /\ a.base.kind \in {"Register", "HexImmediate"}
    /\ \/ a.offset = None
       \/ a.offset.kind = "HexImmediate"
       \/ a.offset.kind = "UnaryOp" /\ a.offset.argument.kind = "HexImmediate"

MatchesSomeRule(arg) ==
    \/ texture_dimension_pattern(arg)
    \/ texture_component_pattern(arg)
    \/ jcal_fun_pattern(arg)
    \/ named_depbar_pattern(arg)
    \/ sreg_pattern(arg)
    \/ const_mem_pattern(arg).matched
    \/ count(arg, "|") = 2
    \/ arg # <<>> /\ arg[1] \in {"!", "~", "R", "P", "{"}
    \/ arg # <<>> /\ arg[1] = "-" /\ ~contains(arg, <<"-", "I", "N", "F">>)
    \/ startswith(arg, SuffixCC)
    \/ startswith(arg, <<"0", "x">>)
    \/ float_pattern(arg)
    \/ dec_pattern(arg)
    \/ address_pattern(arg)

\* C9: every token that no rule takes once ".reuse" is removed from it, the
\* empty token among them, fails with the ValueError "Unable to parse" and
\* with nothing else.
C9_UnrecognizedOperand ==
    (/\ Done("argument_to_object")
     /\ ~MatchesSomeRule(replace(line, <<".", "r", "e", "u", "s", "e">>, <<>>)))
    => result = Raise("ValueError", "[sass_ast.py]: Unable to parse")

\* C10: for operands a and b that argument_to_object returns (Register,
\* PredicateRegister, CC_Register), a == b implies hash(a) == hash(b).
C10_HashConsistentWithEq ==
    (Done("compare") /\ result.kind = "Comparison" /\ result.eq)
    => result.hash_a = result.hash_b

\* C11: for every token t that argument_to_object accepts, the rendering of
\* the operand (its str(), or its text where the class has no __str__ but a
\* text) classifies again, to an operand of the same class with the same
\* rendering.
C11_RenderingRoundTrip ==
    (/\ Done("round_trip")
     /\ result.kind = "RoundTrip"
     /\ result.via = IF result.first.kind = "Barrier" THEN "text" ELSE "str")
    => /\ ~IsError(result.rendering)
       /\ ~IsError(result.second)
       /\ result.second.kind = result.first.kind
       /\ \E a \in Addresses :
              render(file, result.second, result.via, a) = result.rendering

\* C12: whenever argument_to_object returns a UnaryOp, its argument is not a
\* UnaryOp.
C12_UnaryOpsDoNotNest ==
    (Done("argument_to_object") /\ result.kind = "UnaryOp")
    => result.argument.kind # "UnaryOp"

\* C13: when the first token of the text is IMNMX.XHI, whatever operands
\* follow, the mnemonic is IMNMX.XHI with CC appended; when the text has no
\* .CC and the first token is not IMNMX.XHI, the mnemonic has no suffix.
C13_SpecialMnemonic ==
    (Done("Instruction") /\ ~IsError(result))
    => /\ parts.mnemonic = <<"I", "M", "N", "M", "X", ".", "X", "H", "I">>
          => result.sass_instruction = parts.mnemonic \o SuffixCC
       /\ (/\ ~contains(line, <<".", "C", "C">>)
           /\ parts.mnemonic # <<"I", "M", "N", "M", "X", ".", "X", "H", "I">>)
          => result.sass_instruction = parts.mnemonic

====
